---- MODULE Spec2Model ----
(***************************************************************************)
(* BlogPostsWithPopup (latestblogproject/src/App.jsx): one React function  *)
(* component with four state cells, one mount-time effect that fetches the *)
(* posts, one click handler and a render function.                         *)
(*                                                                         *)
(* The state cells hold the value last written by a setter.  `view` is the *)
(* markup committed by the last render of the mounted instance.  Every     *)
(* action that calls a setter also performs the re-render React schedules  *)
(* for it (render, commit, effects whose dependencies changed).            *)
(***************************************************************************)
EXTENDS Integers, Sequences, FiniteSets

\* ---------------------------------------------------------------- bounds
MaxPosts == 2
MaxId == 2

\* ------------------------------------------------------------- constants
Null == "null"
successImage == "./assets/images/blog-posts.png"
errorImage == "./assets/images/error-message.png"
HttpErrorMessage == "Failed to fetch posts. Please try again later."
LoadingText == "Loading posts..."

\* Messages of the errors the platform throws: fetch() rejects with a
\* TypeError, response.json() with a SyntaxError.  Their text is set by the
\* platform, not by the component; every platform gives a non-empty text.
NetworkMessages == {"Failed to fetch", "NetworkError when attempting to fetch resource."}
ParseMessages == {"Unexpected token < in JSON at position 0"}

\* The objects of the response body: {id, title, body, userId}.  The fixed
\* endpoint answers with a JSON array of such objects; a parsed body is a
\* finite sequence of them.
PostIds == 1..MaxId
Titles == {"t1", "t2"}
Bodies == {"b1", "b2"}
Post == [id : PostIds, title : Titles, body : Bodies, userId : {1}]
ResponseData == UNION {[1..n -> Post] : n \in 0..MaxPosts}

VARIABLES posts, error, loading, popupImage,
          view, life, pc, fetches, outcome, data, thrown, lastDraw, lateUpdates

vars == <<posts, error, loading, popupImage,
          view, life, pc, fetches, outcome, data, thrown, lastDraw, lateUpdates>>

\* ------------------------------------------------------------------ render
\* JavaScript truthiness of a state cell holding null or a string.
Truthy(x) == x # Null /\ x # ""

Elem(k, t, s, a, ti, b) ==
    [kind |-> k, text |-> t, src |-> s, alt |-> a, title |-> ti, body |-> b]

LoadingElem == Elem("loading", LoadingText, "", "", "", "")
ErrorElem(e) == Elem("error", e, "", "", "", "")
ButtonElem == Elem("button", "Click Me", "", "", "", "")
PopupElem(p) == Elem("popup", "", p, "Success", "", "")
ErrorPopupElem(e) == Elem("errorPopup", IF e = Null THEN "" ELSE e, errorImage, "Error", "", "")
HeadingElem == Elem("heading", "Blog Posts", "", "", "", "")
PostElem(post) == Elem("post", "", "", "", post.title, post.body)

PostList(ps) == <<HeadingElem>> \o [i \in 1..Len(ps) |-> PostElem(ps[i])]

\* Mutants of Render (plausible slips in the branching of lines 66-111).
RenderErrorBeforeLoading(l, e, p, ps) ==
    IF Truthy(e) THEN <<ErrorElem(e)>>
    ELSE IF l THEN <<LoadingElem>>
    ELSE <<ButtonElem>>
         \o (IF Truthy(p) /\ ~Truthy(e) THEN <<PopupElem(p)>> ELSE <<>>)
         \o (IF Truthy(e) /\ ~Truthy(p) THEN <<ErrorPopupElem(e)>> ELSE <<>>)
         \o (IF ~Truthy(e) /\ ~Truthy(p) THEN PostList(ps) ELSE <<>>)

RenderDropsFirstPost(l, e, p, ps) ==
    IF l THEN <<LoadingElem>>
    ELSE IF Truthy(e) THEN <<ErrorElem(e)>>
    ELSE <<ButtonElem>>
         \o (IF Truthy(p) /\ ~Truthy(e) THEN <<PopupElem(p)>> ELSE <<>>)
         \o (IF Truthy(e) /\ ~Truthy(p) THEN <<ErrorPopupElem(e)>> ELSE <<>>)
         \o (IF ~Truthy(e) /\ ~Truthy(p)
             THEN PostList(IF ps = <<>> THEN ps ELSE Tail(ps)) ELSE <<>>)

RenderNoErrorReturn(l, e, p, ps) ==
    IF l THEN <<LoadingElem>>
    ELSE <<ButtonElem>>
         \o (IF Truthy(p) /\ ~Truthy(e) THEN <<PopupElem(p)>> ELSE <<>>)
         \o (IF Truthy(e) /\ ~Truthy(p) THEN <<ErrorPopupElem(e)>> ELSE <<>>)
         \o (IF ~Truthy(e) /\ ~Truthy(p) THEN PostList(ps) ELSE <<>>)

RenderPostsUnderPopup(l, e, p, ps) ==
    IF l THEN <<LoadingElem>>
    ELSE IF Truthy(e) THEN <<ErrorElem(e)>>
    ELSE <<ButtonElem>>
         \o (IF Truthy(p) /\ ~Truthy(e) THEN <<PopupElem(p)>> ELSE <<>>)
         \o (IF Truthy(e) /\ ~Truthy(p) THEN <<ErrorPopupElem(e)>> ELSE <<>>)
         \o (IF ~Truthy(e) THEN PostList(ps) ELSE <<>>)

RenderPopupRequiresError(l, e, p, ps) ==
    IF l THEN <<LoadingElem>>
    ELSE IF Truthy(e) THEN <<ErrorElem(e)>>
    ELSE <<ButtonElem>>
         \o (IF Truthy(p) /\ Truthy(e) THEN <<PopupElem(p)>> ELSE <<>>)
         \o (IF Truthy(e) /\ ~Truthy(p) THEN <<ErrorPopupElem(e)>> ELSE <<>>)
         \o (IF ~Truthy(e) /\ ~Truthy(p) THEN PostList(ps) ELSE <<>>)

RenderButtonWhileLoading(l, e, p, ps) ==
    IF Truthy(e) /\ ~l THEN <<ErrorElem(e)>>
    ELSE (IF l THEN <<LoadingElem>> ELSE <<>>)
         \o <<ButtonElem>>
         \o (IF Truthy(p) /\ ~Truthy(e) THEN <<PopupElem(p)>> ELSE <<>>)
         \o (IF ~l /\ ~Truthy(e) /\ ~Truthy(p) THEN PostList(ps) ELSE <<>>)

RenderErrorWithButton(l, e, p, ps) ==
    IF l THEN <<LoadingElem>>
    ELSE IF Truthy(e) THEN <<ErrorElem(e), ButtonElem>>
    ELSE <<ButtonElem>>
         \o (IF Truthy(p) /\ ~Truthy(e) THEN <<PopupElem(p)>> ELSE <<>>)
         \o (IF Truthy(e) /\ ~Truthy(p) THEN <<ErrorPopupElem(e)>> ELSE <<>>)
         \o (IF ~Truthy(e) /\ ~Truthy(p) THEN PostList(ps) ELSE <<>>)

RenderButtonBeforeErrorReturn(l, e, p, ps) ==
    IF l THEN <<LoadingElem>>
    ELSE <<ButtonElem>>
         \o (IF Truthy(e) THEN <<ErrorElem(e)>> ELSE <<>>)
         \o (IF Truthy(p) /\ ~Truthy(e) THEN <<PopupElem(p)>> ELSE <<>>)
         \o (IF ~Truthy(e) /\ ~Truthy(p) THEN PostList(ps) ELSE <<>>)

\* The component's return value for the state (loading, error, popupImage,
\* posts), as the flat sequence of the elements it contains.
Render(l, e, p, ps) ==
    IF l THEN <<LoadingElem>>
    ELSE IF Truthy(e) THEN <<ErrorElem(e)>>
    ELSE <<ButtonElem>>
         \o (IF Truthy(p) /\ ~Truthy(e) THEN <<PopupElem(p)>> ELSE <<>>)
         \o (IF Truthy(e) /\ ~Truthy(p) THEN <<ErrorPopupElem(e)>> ELSE <<>>)
         \o (IF ~Truthy(e) /\ ~Truthy(p) THEN PostList(ps) ELSE <<>>)

\* ----------------------------------------------------------------- effects
EffectDueEveryRender(firstCommit) == TRUE

\* useEffect(..., []): the effect runs after the first commit only.
EffectDue(firstCommit) == firstCommit

\* Re-render after a setter call: the mounted instance renders the new state
\* and runs the effects that are due; an unmounted instance renders nothing.
Commit(l, e, p, ps) ==
    /\ view' = IF life = "mounted" THEN Render(l, e, p, ps) ELSE view
    /\ fetches' = IF life = "mounted" /\ EffectDue(FALSE) THEN fetches + 1 ELSE fetches
    /\ lateUpdates' = IF life = "mounted" THEN lateUpdates ELSE lateUpdates + 1

\* ------------------------------------------------------------ initial state
Init ==
    /\ posts = <<>>
    /\ error = Null
    /\ loading = TRUE
    /\ popupImage = Null
    /\ view = <<>>
    /\ life = "created"
    /\ pc = "idle"
    /\ fetches = 0
    /\ outcome = "pending"
    /\ data = <<>>
    /\ thrown = Null
    /\ lastDraw = "none"
    /\ lateUpdates = 0

\* ------------------------------------------------------------------ actions
\* First render and commit, then the mount effect calls fetchPosts(), which
\* issues the request and suspends at the first await.
Mount ==
    /\ life = "created"
    /\ life' = "mounted"
    /\ view' = Render(loading, error, popupImage, posts)
    /\ IF EffectDue(TRUE)
       THEN fetches' = fetches + 1 /\ pc' = "awaitFetch"
       ELSE fetches' = fetches /\ pc' = pc
    /\ UNCHANGED <<posts, error, loading, popupImage, outcome, data, thrown,
                   lastDraw, lateUpdates>>

\* fetch() resolves with response.ok; fetchPosts suspends at response.json().
FetchResolveOk ==
    /\ pc = "awaitFetch"
    /\ pc' = "awaitJson"
    /\ UNCHANGED <<posts, error, loading, popupImage, view, life, fetches,
                   outcome, data, thrown, lastDraw, lateUpdates>>

CatchMessageGeneric(message) == HttpErrorMessage

\* catch (err) { setError(err.message) }
CatchMessage(message) == message

Catch(kind, message) ==
    /\ outcome' = kind
    /\ thrown' = message
    /\ error' = CatchMessage(message)
    /\ pc' = "finally"
    /\ Commit(loading, error', popupImage, posts)
    /\ UNCHANGED <<posts, loading, popupImage, life, data, lastDraw>>

\* Mutant: the non-OK branch records the error without throwing, so the
\* loader goes on to parse the body and to call setPosts.
FetchResolveNotOkContinues ==
    /\ pc = "awaitFetch"
    /\ outcome' = "notok"
    /\ thrown' = HttpErrorMessage
    /\ error' = HttpErrorMessage
    /\ pc' = "awaitJson"
    /\ Commit(loading, error', popupImage, posts)
    /\ UNCHANGED <<posts, loading, popupImage, life, data, lastDraw>>

\* fetch() resolves with !response.ok: the component throws its own Error.
FetchResolveNotOk ==
    /\ pc = "awaitFetch"
    /\ Catch("notok", HttpErrorMessage)

\* fetch() rejects (network/transport failure).
FetchReject ==
    /\ pc = "awaitFetch"
    /\ \E m \in NetworkMessages : Catch("network", m)

\* response.json() resolves with the parsed body; setPosts(data).
JsonResolve ==
    /\ pc = "awaitJson"
    /\ \E d \in ResponseData :
          /\ data' = d
          /\ posts' = d
    /\ outcome' = "success"
    /\ pc' = "finally"
    /\ Commit(loading, error, popupImage, posts')
    /\ UNCHANGED <<error, loading, popupImage, life, thrown, lastDraw>>

\* response.json() rejects (the body is not JSON).
JsonReject ==
    /\ pc = "awaitJson"
    /\ \E m \in ParseMessages : Catch("parse", m)

FinallyLoadingKept == loading

\* finally { setLoading(false) }
FinallyLoading == FALSE

Finally ==
    /\ pc = "finally"
    /\ loading' = FinallyLoading
    /\ pc' = "done"
    /\ Commit(loading', error, popupImage, posts)
    /\ UNCHANGED <<posts, error, popupImage, life, outcome, data, thrown, lastDraw>>

handleButtonClickSwapped(isSuccess) ==
    IF isSuccess
    THEN [popupImage |-> errorImage, error |-> Null]
    ELSE [popupImage |-> successImage, error |-> Null]

handleButtonClickSuccessOnly(isSuccess) ==
    IF isSuccess
    THEN [popupImage |-> successImage, error |-> Null]
    ELSE [popupImage |-> successImage, error |-> Null]

handleButtonClickToggles(isSuccess) ==
    IF popupImage # Null
    THEN [popupImage |-> Null, error |-> Null]
    ELSE IF isSuccess
         THEN [popupImage |-> successImage, error |-> Null]
         ELSE [popupImage |-> errorImage, error |-> Null]

\* The values handleButtonClick writes for the draw isSuccess.
handleButtonClick(isSuccess) ==
    IF isSuccess
    THEN [popupImage |-> successImage, error |-> Null]
    ELSE [popupImage |-> errorImage, error |-> Null]

HasButton(v) == \E i \in 1..Len(v) : v[i].kind = "button"

\* A click on the rendered button; isSuccess is the draw Math.random() > 0.5.
Click ==
    /\ life = "mounted"
    /\ HasButton(view)
    /\ \E isSuccess \in BOOLEAN :
          /\ popupImage' = handleButtonClick(isSuccess).popupImage
          /\ error' = handleButtonClick(isSuccess).error
          /\ lastDraw' = IF isSuccess THEN "success" ELSE "failure"
    /\ Commit(loading, error', popupImage', posts)
    /\ UNCHANGED <<posts, loading, life, pc, outcome, data, thrown>>

\* Mutant: a cleanup that abandons the pending loader.
UnmountCancels ==
    /\ life = "mounted"
    /\ life' = "unmounted"
    /\ view' = <<>>
    /\ pc' = "done"
    /\ UNCHANGED <<posts, error, loading, popupImage, fetches, outcome,
                   data, thrown, lastDraw, lateUpdates>>

\* The parent removes the component.  The effect returns no cleanup, so the
\* pending fetchPosts call is left running.
Unmount ==
    /\ life = "mounted"
    /\ life' = "unmounted"
    /\ view' = <<>>
    /\ UNCHANGED <<posts, error, loading, popupImage, pc, fetches, outcome,
                   data, thrown, lastDraw, lateUpdates>>

Next ==
    \/ Mount
    \/ FetchResolveOk
    \/ FetchResolveNotOk
    \/ FetchReject
    \/ JsonResolve
    \/ JsonReject
    \/ Finally
    \/ Click
    \/ Unmount

Spec == Init /\ [][Next]_vars

\* The platform settles every promise the loader awaits, and the loader's
\* continuation then runs to its end.
Fairness ==
    /\ WF_vars(FetchResolveOk \/ FetchResolveNotOk \/ FetchReject)
    /\ WF_vars(JsonResolve \/ JsonReject)
    /\ WF_vars(Finally)

FairSpec == Spec /\ Fairness

TypeOK ==
    /\ posts \in ResponseData
    /\ error \in {Null, HttpErrorMessage} \cup NetworkMessages \cup ParseMessages
    /\ loading \in BOOLEAN
    /\ popupImage \in {Null, successImage, errorImage}
    /\ life \in {"created", "mounted", "unmounted"}
    /\ pc \in {"idle", "awaitFetch", "awaitJson", "finally", "done"}
    /\ fetches \in Nat
    /\ outcome \in {"pending", "success", "notok", "network", "parse"}
    /\ lastDraw \in {"none", "success", "failure"}
    /\ lateUpdates \in 0..2

\* ------------------------------------------------------- reading the view
Kinds(v) == {v[i].kind : i \in 1..Len(v)}

SelectKind(v, k) == SelectSeq(v, LAMBDA el : el.kind = k)

\* The post blocks of a view, in document order, as (title, body) pairs.
PostBlocks(v) ==
    LET s == SelectKind(v, "post")
    IN  [i \in 1..Len(s) |-> [title |-> s[i].title, body |-> s[i].body]]

\* The non-empty error texts a view displays.
ErrorTexts(v) ==
    {v[i].text : i \in {j \in 1..Len(v) : v[j].kind \in {"error", "errorPopup"}}} \ {""}

\* The views of the selector that a rendered output contains.
ViewClasses(v) ==
    {c \in {"loading", "error", "popup", "posts"} :
        \/ c = "loading" /\ "loading" \in Kinds(v)
        \/ c = "error" /\ Kinds(v) \cap {"error", "errorPopup"} # {}
        \/ c = "popup" /\ Kinds(v) \cap {"popup", "errorPopup"} # {}
        \/ c = "posts" /\ "heading" \in Kinds(v)}

Failed == outcome \in {"notok", "network", "parse"}

\* ------------------------------------------------------------------ claims

\* C1: while the instance is mounted and the loader has not finished, the
\* rendered output is exactly the loading message: one element, no button,
\* no popup, no error text, no post block, whatever error and posts hold.
C1_LoadingUntilSettled ==
    (life = "mounted" /\ pc # "done") => view = <<LoadingElem>>

C1_Witness ==
    /\ life = "mounted"
    /\ pc = "awaitFetch"
    /\ view = <<LoadingElem>>

\* C2: for every outcome, loading is false once the loader has finished, and
\* (the awaited promises settling) a pending loader leads to loading false.
C2_LoadingCleared ==
    /\ [](pc = "done" => loading = FALSE)
    /\ (pc = "awaitFetch" ~> loading = FALSE)

C2_Witness ==
    /\ pc = "done"
    /\ outcome = "parse"
    /\ loading = FALSE

\* C3: after a successful fetch of N posts and no click, the rendered output
\* has exactly N post blocks, the i-th showing title and body of the i-th
\* post of the response.
C3_PostBlocksMatchResponse ==
    (life = "mounted" /\ pc = "done" /\ outcome = "success" /\ lastDraw = "none")
        => PostBlocks(view) =
             [i \in 1..Len(data) |-> [title |-> data[i].title, body |-> data[i].body]]

C3_Witness ==
    /\ life = "mounted"
    /\ pc = "done"
    /\ outcome = "success"
    /\ lastDraw = "none"
    /\ Len(data) = 2
    /\ data[1].title # data[2].title
    /\ Len(PostBlocks(view)) = 2

\* C4: after a fetch that settles with a non-OK status, the rendered output
\* is the error message and no post block, loading is false and posts is
\* still the empty initial sequence.
C4_NotOkShowsError ==
    (life = "mounted" /\ pc = "done" /\ outcome = "notok")
        => /\ Kinds(view) = {"error"}
           /\ ErrorTexts(view) = {HttpErrorMessage}
           /\ PostBlocks(view) = <<>>
           /\ loading = FALSE
           /\ posts = <<>>

C4_Witness ==
    /\ life = "mounted"
    /\ pc = "done"
    /\ outcome = "notok"
    /\ Len(view) = 1
    /\ view[1].text = HttpErrorMessage

\* C5 as stated: every failure kind stores the same single generic message.
C5_Original ==
    (Failed /\ pc = "done") => error = HttpErrorMessage

\* C5 (amended): every failure kind stores the message of the error that was
\* caught, a non-null string: the component's fixed message for a non-OK
\* status, the platform's message for a network or a parse failure.
C5_StoresCaughtMessage ==
    (Failed /\ pc = "done")
        => /\ error # Null
           /\ error = thrown
           /\ (outcome = "notok" => error = HttpErrorMessage)
           /\ (outcome = "network" => error \in NetworkMessages)
           /\ (outcome = "parse" => error \in ParseMessages)

C5_Witness ==
    /\ pc = "done"
    /\ outcome = "network"
    /\ error \in NetworkMessages
    /\ error # HttpErrorMessage

\* C6: one mounted instance issues exactly one fetch, however many
\* re-renders the loader's updates and the clicks cause.
C6_FetchOnce ==
    /\ fetches <= 1
    /\ (life # "created" => fetches = 1)

C6_Witness ==
    /\ fetches = 1
    /\ pc = "done"
    /\ lastDraw # "none"

\* C7: after a click, error is null and popupImage is the success asset if
\* the draw was true and the error asset if it was false.
C7_TriggerResult ==
    /\ (lastDraw = "success" => (popupImage = successImage /\ error = Null))
    /\ (lastDraw = "failure" => (popupImage = errorImage /\ error = Null))

C7_Witness ==
    /\ lastDraw = "failure"
    /\ popupImage = errorImage
    /\ error = Null

\* C8: after a click with a success draw the rendered output is the button
\* and the popup with the success image, with no error text and no posts.
C8_SuccessDrawView ==
    (life = "mounted" /\ lastDraw = "success")
        => /\ Kinds(view) = {"button", "popup"}
           /\ Len(SelectKind(view, "popup")) = 1
           /\ \A i \in 1..Len(view) :
                 view[i].kind = "popup" => view[i].src = successImage
           /\ ErrorTexts(view) = {}

C8_Witness ==
    /\ life = "mounted"
    /\ lastDraw = "success"
    /\ outcome = "success"
    /\ data # <<>>
    /\ \E i \in 1..Len(view) : view[i].kind = "popup" /\ view[i].src = successImage

\* C9: after a click with a failure draw the rendered output is the popup
\* with the error image, the displayed error message is empty, and no fetch
\* error text is shown.
C9_FailureDrawView ==
    (life = "mounted" /\ lastDraw = "failure")
        => /\ Kinds(view) = {"button", "popup"}
           /\ Len(SelectKind(view, "popup")) = 1
           /\ \A i \in 1..Len(view) :
                 view[i].kind = "popup" => view[i].src = errorImage
           /\ ErrorTexts(view) = {}
           /\ \A i \in 1..Len(view) :
                 view[i].text \notin ({HttpErrorMessage} \cup NetworkMessages \cup ParseMessages)
           /\ error = Null

C9_Witness ==
    /\ life = "mounted"
    /\ lastDraw = "failure"
    /\ \E i \in 1..Len(view) : view[i].kind = "popup" /\ view[i].src = errorImage

\* C10: the mounted instance always renders exactly one of the four views
\* (loading message, error message, popup image, post list); once the loader
\* has finished and with popupImage unset, exactly one of post list and
\* error message is displayed.
C10_ExactlyOneView ==
    life = "mounted"
        => /\ Cardinality(ViewClasses(view)) = 1
           /\ (pc = "done" /\ popupImage = Null)
                 => /\ ViewClasses(view) \subseteq {"posts", "error"}
                    /\ ("posts" \in ViewClasses(view)) # ("error" \in ViewClasses(view))

C10_Witness ==
    /\ life = "mounted"
    /\ pc = "done"
    /\ popupImage = Null
    /\ outcome = "network"
    /\ ViewClasses(view) = {"error"}

\* C11 as stated: after a native fetch failure and before any click, the
\* rendered output is the error popup block (error image plus error text).
C11_ErrorPopupRendered ==
    (life = "mounted" /\ pc = "done" /\ Failed /\ lastDraw = "none")
        => "errorPopup" \in Kinds(view)

\* C12: loading is true exactly in the states before the loader finishes,
\* and once false it is never set back to true.
C12_LoadingOnlyBeforeDone ==
    /\ [](loading <=> pc # "done")
    /\ [][loading = FALSE => loading' = FALSE]_vars

C12_Witness ==
    /\ pc = "done"
    /\ loading = FALSE
    /\ lastDraw # "none"
    /\ life = "mounted"

\* C13 as stated: the trigger can be invoked while the fetch is still
\* pending, and after a fetch failure, so that loader and trigger updates
\* interleave in either order.
C13_Original ==
    (life = "mounted" /\ (pc \in {"awaitFetch", "awaitJson"} \/ Failed))
        => ENABLED Click

\* C13 (amended): the trigger can be invoked only after the loader has
\* finished without failure, so loader and trigger never interleave: every
\* loader update lands before any trigger update and none follows one.
C13_TriggerOnlyAfterLoader ==
    /\ []((ENABLED Click \/ lastDraw # "none")
            => (pc = "done" /\ outcome = "success" /\ loading = FALSE))
    /\ [][lastDraw # "none" => UNCHANGED <<posts, loading, pc, outcome>>]_vars
    /\ [][lastDraw' # "none" => error' = Null]_vars

C13_Witness ==
    /\ life = "mounted"
    /\ lastDraw = "failure"
    /\ pc = "done"
    /\ outcome = "success"
    /\ error = Null

\* C14: tearing the component down does not stop the loader; when it is
\* torn down while the fetch is pending, the loader still runs to its end
\* and performs both of its state updates on the unmounted instance.
C14_LoaderSurvivesUnmount ==
    /\ [][(life = "mounted" /\ life' = "unmounted") => pc' = pc]_vars
    /\ ((life = "unmounted" /\ pc = "awaitFetch")
          ~> (pc = "done" /\ lateUpdates = 2 /\ loading = FALSE))

C14_Witness ==
    /\ life = "unmounted"
    /\ lateUpdates = 2
    /\ pc = "done"
    /\ outcome = "success"
    /\ posts # <<>>

\* C15: the button is rendered only with loading false and error null, so
\* error is null at every trigger invocation and an error, once set, is
\* never erased.
C15_ButtonOnlyWithoutError ==
    /\ []((life = "mounted" /\ HasButton(view)) => (loading = FALSE /\ error = Null))
    /\ [](ENABLED Click => error = Null)
    /\ [][error # Null => error' = error]_vars

C15_Witness ==
    /\ life = "mounted"
    /\ HasButton(view)
    /\ lastDraw # "none"
    /\ error = Null
    /\ loading = FALSE

\* C16: after a failed fetch, error keeps the caught message and popupImage
\* stays unset in every later state, and the mounted instance keeps showing
\* the error message only.
C16_ErrorViewAbsorbing ==
    /\ []((life = "mounted" /\ Failed /\ pc = "done")
            => (Kinds(view) = {"error"} /\ ErrorTexts(view) = {thrown} /\ Len(view) = 1))
    /\ [](Failed => (error = thrown /\ error # Null /\ popupImage = Null))
    /\ [][Failed => (error' = error /\ popupImage' = popupImage)]_vars
    /\ [][(Failed /\ pc = "done" /\ life' = "mounted") => view' = view]_vars

C16_Witness ==
    /\ life = "mounted"
    /\ pc = "done"
    /\ outcome = "parse"
    /\ Kinds(view) = {"error"}
    /\ popupImage = Null

\* C17: popupImage, once set, is never null again; after the first click it
\* is one of the two assets and the post list is not rendered any more.
C17_PopupNeverReset ==
    /\ [](lastDraw # "none"
            => /\ popupImage \in {successImage, errorImage}
               /\ (life = "mounted"
                     => ("heading" \notin Kinds(view) /\ PostBlocks(view) = <<>>)))
    /\ [][popupImage # Null => popupImage' # Null]_vars

C17_Witness ==
    /\ life = "mounted"
    /\ lastDraw = "success"
    /\ popupImage = successImage
    /\ posts # <<>>
    /\ PostBlocks(view) = <<>>

\* C18: posts and error are never both set: error is non-null only after a
\* failed loader run with posts still empty, and posts holds a fetched
\* response only with error null.
C18_PostsErrorExclusive ==
    /\ error # Null => (posts = <<>> /\ Failed)
    /\ outcome = "success" => (error = Null /\ posts = data)
    /\ posts # <<>> => outcome = "success"

C18_Witness ==
    /\ pc = "done"
    /\ outcome = "success"
    /\ posts # <<>>
    /\ error = Null

====
